---- MODULE Spec2Model ----
(***************************************************************************)
(* Console weather application (weatherApi/weatherApp.py).                 *)
(*                                                                         *)
(* The program is a single-threaded loop that blocks at three places: the  *)
(* city prompt, the unit prompt and the HTTP request.  Each action below   *)
(* is the code that runs from one blocking point to the next.              *)
(*                                                                         *)
(* Text: a line typed by the user is a sequence of one-character strings,  *)
(* so that strip() and lower() are computed.  Printed text is a TLA+       *)
(* string.  The two non-ASCII glyphs of the program's messages are written *)
(* in ASCII: the cross mark is "[x]" and the degree sign is "deg".         *)
(***************************************************************************)
EXTENDS Integers, Sequences, FiniteSets, TLC

VARIABLES pc, api_key, tz, line, city, units, exc, data, out, shown, raised,
          netCalls, cityPrompts, invalid, prevFail

vars == <<pc, api_key, tz, line, city, units, exc, data, out, shown, raised,
          netCalls, cityPrompts, invalid, prevFail>>

(* Bounds of the model. *)
MaxQueries == 2
MaxInvalid == 2

(***************************************************************************)
(* Python / JSON values.  Every scalar has the same three fields so that   *)
(* values of different Python types can be compared.                       *)
(***************************************************************************)
Absent == [t |-> "absent", i |-> 0, s |-> ""]
PyNone == [t |-> "None", i |-> 0, s |-> ""]
JInt(n) == [t |-> "int", i |-> n, s |-> ""]
JStr(x) == [t |-> "str", i |-> 0, s |-> x]

Dig == <<"0", "1", "2", "3", "4", "5", "6", "7", "8", "9">>

RECURSIVE IntToStr(_)
IntToStr(n) ==
    IF n < 0 THEN "-" \o IntToStr(0 - n)
    ELSE IF n < 10 THEN Dig[n + 1]
    ELSE IntToStr(n \div 10) \o Dig[(n % 10) + 1]

(* str(v) and the formatting of v inside an f-string *)
PyStr(v) ==
    CASE v.t = "int" -> IntToStr(v.i)
      [] v.t = "str" -> v.s
      [] OTHER -> "None"

(* truth value of v in "if v:" *)
Truthy(v) ==
    CASE v.t = "int" -> v.i # 0
      [] v.t = "str" -> v.s # ""
      [] OTHER -> FALSE

(* dict.get(key): None when the key is missing *)
Get(v) == IF v.t = "absent" THEN PyNone ELSE v

(* dict.get(key, default) with the default dropped *)
GetOr_NoDefault(v, default) == Get(v)

(* dict.get(key, default) *)
GetOr(v, default) == IF v.t = "absent" THEN default ELSE v

(***************************************************************************)
(* str.strip() and str.lower() on lines of input                           *)
(***************************************************************************)
Whitespace == {" ", "\t"}
UpperCase == <<"A", "B", "C", "D", "E", "F", "G", "H", "I", "J", "K", "L", "M",
               "N", "O", "P", "Q", "R", "S", "T", "U", "V", "W", "X", "Y", "Z">>
LowerCase == <<"a", "b", "c", "d", "e", "f", "g", "h", "i", "j", "k", "l", "m",
               "n", "o", "p", "q", "r", "s", "t", "u", "v", "w", "x", "y", "z">>

RECURSIVE lstrip(_)
lstrip(s) == IF s # <<>> /\ Head(s) \in Whitespace THEN lstrip(Tail(s)) ELSE s

RECURSIVE rstrip(_)
rstrip(s) ==
    IF s # <<>> /\ s[Len(s)] \in Whitespace
    THEN rstrip(SubSeq(s, 1, Len(s) - 1))
    ELSE s

strip(s) == rstrip(lstrip(s))

LowerChar(c) ==
    IF \E k \in 1..26 : UpperCase[k] = c
    THEN LowerCase[CHOOSE k \in 1..26 : UpperCase[k] = c]
    ELSE c

lower(s) == [k \in 1..Len(s) |-> LowerChar(s[k])]

(* a printed line: the print statement it comes from, its text, and the    *)
(* values formatted into it                                                *)
Line(k, text, args) == [k |-> k, text |-> text, args |-> args]

HasLine(k) == \E n \in 1..Len(out) : out[n].k = k
TheLine(k) == out[CHOOSE n \in 1..Len(out) : out[n].k = k]
CountLines(k) == Cardinality({n \in 1..Len(out) : out[n].k = k})

(***************************************************************************)
(* The parsed JSON body.  A body is an object, or another JSON value (a    *)
(* list; null, which json() returns as None).  Each optional member is     *)
(* Absent, a scalar, or for sys / main / wind a nested object; t names the *)
(* Python type of a member that is not an object.                          *)
(***************************************************************************)
NoSys == [t |-> "absent", country |-> Absent, sunrise |-> Absent, sunset |-> Absent]
NoMain == [t |-> "absent", temp |-> Absent, humidity |-> Absent]
NoWind == [t |-> "absent", speed |-> Absent]

Body(t, cod, message, name, sys, main, wind) ==
    [t |-> t, cod |-> cod, message |-> message, name |-> name,
     sys |-> sys, main |-> main, wind |-> wind]

NoneBody == Body("None", Absent, Absent, Absent, NoSys, NoMain, NoWind)
ListBody == Body("list", Absent, Absent, Absent, NoSys, NoMain, NoWind)

SysValues ==
    {NoSys, [NoSys EXCEPT !.t = "None"]} \cup
    [t : {"obj"}, country : {Absent, JStr("IT")},
     sunrise : {Absent, JInt(0), JInt(22500)},
     sunset : {Absent, JInt(0), JInt(67500), JStr("n/a")}]

MainValues ==
    {NoMain, [NoMain EXCEPT !.t = "int"]} \cup
    [t : {"obj"}, temp : {Absent, JInt(21)}, humidity : {Absent, JInt(60)}]

WindValues ==
    {NoWind} \cup [t : {"obj"}, speed : {Absent, JInt(5)}]

(* bodies the API can answer with: error documents, weather documents,    *)
(* and bodies that are not objects                                         *)
ErrorBodies ==
    {Body("obj", cod, message, Absent, NoSys, NoMain, NoWind) :
        cod \in {Absent, JInt(404), JStr("404"), JInt(2000), JStr("200 ")},
        message \in {Absent, JStr("city not found")}}

WeatherBodies ==
    {Body("obj", JInt(200), Absent, name, sys, main, wind) :
        name \in {Absent, JStr("Rome")},
        sys \in SysValues, main \in MainValues, wind \in WindValues} \cup
    {Body("obj", JStr("200"), message, Absent, sys, NoMain, NoWind) :
        message \in {Absent, JStr("ok")},
        sys \in {NoSys, [NoSys EXCEPT !.t = "obj", !.sunrise = JInt(22500)]}}

Bodies == ErrorBodies \cup WeatherBodies \cup {NoneBody, ListBody}

(***************************************************************************)
(* WeatherClient.fetch_weather                                             *)
(***************************************************************************)
(* the exceptions requests.get / raise_for_status can raise, each with the *)
(* classes it is an instance of                                            *)
Bases ==
    [HTTPError |-> {"HTTPError", "RequestException"},
     ConnectionError |-> {"ConnectionError", "RequestException"},
     ConnectTimeout |-> {"ConnectTimeout", "ConnectionError", "Timeout",
                         "RequestException"},
     ReadTimeout |-> {"ReadTimeout", "Timeout", "RequestException"},
     TooManyRedirects |-> {"TooManyRedirects", "RequestException"}]

Exceptions == DOMAIN Bases

(* the except clauses, in the order they are tried *)
ExceptClauses == <<"HTTPError", "ConnectionError", "Timeout", "RequestException">>

(* the except chain without the ConnectionError clause *)
HandlerFor_NoConnectionClause(e) ==
    IF "HTTPError" \in Bases[e] THEN "HTTPError"
    ELSE IF "Timeout" \in Bases[e] THEN "Timeout"
    ELSE "RequestException"

HandlerFor(e) ==
    ExceptClauses[CHOOSE n \in 1..Len(ExceptClauses) :
        /\ ExceptClauses[n] \in Bases[e]
        /\ \A m \in 1..(n - 1) : ExceptClauses[m] \notin Bases[e]]

HandlerLine(e) ==
    CASE HandlerFor(e) = "HTTPError" ->
            Line("HttpError", "[x] HTTP Error: " \o e, <<e>>)
      [] HandlerFor(e) = "ConnectionError" ->
            Line("NetworkError",
                 "[x] Network connection error. Check your internet.", <<>>)
      [] HandlerFor(e) = "Timeout" ->
            Line("Timeout", "[x] Request timed out.", <<>>)
      [] OTHER ->
            Line("RequestError", "[x] General request error: " \o e, <<e>>)

(* what the call prints and what it returns, for an exception e raised by  *)
(* the request ("none": no exception) and a parsed body                    *)
fetch_weather(e, body) ==
    IF e = "none"
    THEN [printed |-> <<>>, ret |-> body]
    ELSE [printed |-> <<HandlerLine(e)>>, ret |-> NoneBody]

(***************************************************************************)
(* WeatherDisplay                                                          *)
(***************************************************************************)
TwoDigits(n) == Dig[(n \div 10) + 1] \o Dig[(n % 10) + 1]

(* datetime.fromtimestamp(timestamp).strftime("%I:%M %p"); tz is the       *)
(* offset of the local time zone from UTC, in seconds                      *)
format_unix_time(timestamp) ==
    LET local == timestamp + tz
        hour == (local \div 3600) % 24
        minute == (local \div 60) % 60
        hour12 == IF hour % 12 = 0 THEN 12 ELSE hour % 12
    IN TwoDigits(hour12) \o ":" \o TwoDigits(minute) \o " " \o
       (IF hour < 12 THEN "AM" ELSE "PM")

(* the optional line of a sunrise / sunset value *)
TimeLine(k, label, v) ==
    IF Truthy(v) THEN <<Line(k, label \o format_unix_time(v.i), <<format_unix_time(v.i)>>)>>
    ELSE <<>>

(* the lines show_weather prints and the exception it ends with *)
show_weather(d, u) ==
    LET header == <<Line("Header", "\n------ WEATHER INFORMATION ------", <<>>)>>
        name == GetOr(d.name, JStr("Unknown city"))
        country == GetOr(d.sys.country, JStr("N/A"))
        temperature == GetOr(d.main.temp, JStr("No data"))
        humidity == GetOr(d.main.humidity, JStr("No data"))
        wind_speed == GetOr(d.wind.speed, JStr("No data"))
        sunrise == Get(d.sys.sunrise)
        sunset == Get(d.sys.sunset)
        temperature_unit == IF u = "metric" THEN "degC" ELSE "degF"
        fields ==
            <<Line("Location", "Location: " \o PyStr(name) \o ", " \o PyStr(country),
                   <<PyStr(name), PyStr(country)>>),
              Line("Temperature",
                   "Temperature: " \o PyStr(temperature) \o temperature_unit,
                   <<PyStr(temperature), temperature_unit>>),
              Line("Humidity", "Humidity: " \o PyStr(humidity) \o "%",
                   <<PyStr(humidity)>>),
              Line("WindSpeed", "Wind Speed: " \o PyStr(wind_speed) \o " m/s",
                   <<PyStr(wind_speed)>>)>>
        footer == <<Line("Footer", "--------------------------------\n", <<>>)>>
    IN  IF \/ d.sys.t \notin {"absent", "obj"}
           \/ d.main.t \notin {"absent", "obj"}
           \/ d.wind.t \notin {"absent", "obj"}
        THEN [lines |-> header, raised |-> "AttributeError"]
        ELSE IF Truthy(sunrise) /\ sunrise.t # "int"
        THEN [lines |-> header \o fields, raised |-> "TypeError"]
        ELSE IF Truthy(sunset) /\ sunset.t # "int"
        THEN [lines |-> header \o fields \o TimeLine("Sunrise", "Sunrise: ", sunrise),
              raised |-> "TypeError"]
        ELSE [lines |-> header \o fields
                        \o TimeLine("Sunrise", "Sunrise: ", sunrise)
                        \o TimeLine("Sunset", "Sunset:  ", sunset)
                        \o footer,
              raised |-> "none"]

(***************************************************************************)
(* Inputs                                                                  *)
(***************************************************************************)
KeyUnset == [set |-> FALSE, val |-> ""]
KeyEmpty == [set |-> TRUE, val |-> ""]
KeyGiven == [set |-> TRUE, val |-> "k3y"]
ApiKeys == {KeyUnset, KeyEmpty, KeyGiven}

(* offsets of the local time zone, in seconds *)
TimeZones == {0, 0 - 18000}

CityLines ==
    {<<"e", "x", "i", "t">>, <<"E", "X", "I", "T">>, <<"E", "x", "i", "t">>,
     <<" ", "e", "x", "i", "t", "\t">>,
     <<>>, <<" ", " ">>, <<"R", "o", "m", "e">>, <<" ", "R", "o", "m", "e", " ">>}

UnitLines ==
    {<<"c">>, <<"C">>, <<" ", "c", " ">>, <<"f">>, <<"\t", "F">>,
     <<"x">>, <<>>, <<"c", "f">>}

(***************************************************************************)
(* get_units and main                                                      *)
(***************************************************************************)
(* "if api_key is None" *)
KeyMissing_NoneOnly(k) == ~k.set

(* "if not api_key" *)
KeyMissing(k) == ~k.set \/ k.val = ""

(* city == "exit" *)
IsExit_CaseSensitive(c) == c = <<"e", "x", "i", "t">>

(* city.lower() == "exit" *)
IsExit(c) == lower(c) = <<"e", "x", "i", "t">>

(* input(...).strip() *)
UnitChoice_NoLower(l) == strip(l)

(* input(...).strip().lower() in get_units *)
UnitChoice(l) == lower(strip(l))

(* the value get_units returns for a choice; "" when it prompts again *)
UnitsOf(choice) ==
    IF choice = <<"c">> THEN "metric"
    ELSE IF choice = <<"f">> THEN "imperial"
    ELSE ""

(* data.get("cod") != 200 is false *)
IsSuccessCod_IntOnly(d) == d.cod = JInt(200)

(* str(data.get("cod")) != "200" is false *)
IsSuccessCod(d) == PyStr(Get(d.cod)) = "200"

NoFail == [exc |-> "none", ret |-> NoneBody]

Init ==
    /\ pc = "Start"
    /\ api_key \in ApiKeys
    /\ tz \in TimeZones
    /\ line = <<>>
    /\ city = <<>>
    /\ units = ""
    /\ exc = "none"
    /\ data = NoneBody
    /\ out = <<>>
    /\ shown = FALSE
    /\ raised = "none"
    /\ netCalls = 0
    /\ cityPrompts = 0
    /\ invalid = 0
    /\ prevFail = NoFail

(* main, up to the first city prompt *)
Startup ==
    /\ pc = "Start"
    /\ IF KeyMissing(api_key)
       THEN /\ out' = <<Line("NoKey",
                    "[x] ERROR: API key not found. Add it to your .env file.", <<>>)>>
            /\ pc' = "Returned"
            /\ cityPrompts' = cityPrompts
       ELSE /\ out' = <<Line("Banner", "==== Python Weather App ====\n", <<>>)>>
            /\ pc' = "AwaitingCity"
            /\ cityPrompts' = cityPrompts + 1
    /\ UNCHANGED <<api_key, tz, line, city, units, exc, data, shown, raised,
                   netCalls, invalid, prevFail>>

(* the city prompt returns the line l; the values of the finished          *)
(* iteration (data, the exception, what was shown) are dead here, and      *)
(* prevFail keeps the last failed fetch and what it returned               *)
ReadCity(l) ==
    /\ pc = "AwaitingCity"
    /\ line' = l
    /\ city' = strip(l)
    /\ IF IsExit(strip(l))
       THEN /\ out' = <<Line("Goodbye", "Goodbye!", <<>>)>>
            /\ pc' = "Exited"
       ELSE /\ netCalls < MaxQueries
            /\ out' = <<>>
            /\ pc' = "AwaitingUnits"
    /\ invalid' = 0
    /\ prevFail' = IF exc # "none" THEN [exc |-> exc, ret |-> data] ELSE prevFail
    /\ exc' = "none"
    /\ data' = NoneBody
    /\ shown' = FALSE
    /\ UNCHANGED <<api_key, tz, units, raised, netCalls, cityPrompts>>

(* the unit prompt of get_units returns the line l; on a valid choice      *)
(* get_units returns and main issues the request                           *)
ReadUnits(l) ==
    /\ pc = "AwaitingUnits"
    /\ line' = l
    /\ IF UnitsOf(UnitChoice(l)) # ""
       THEN /\ units' = UnitsOf(UnitChoice(l))
            /\ out' = <<>>
            /\ pc' = "Fetching"
            /\ netCalls' = netCalls + 1
            /\ invalid' = 0
       ELSE /\ invalid < MaxInvalid
            /\ out' = <<Line("InvalidOption", "Invalid option. Please enter C or F.", <<>>)>>
            /\ pc' = "AwaitingUnits"
            /\ invalid' = invalid + 1
            /\ UNCHANGED <<units, netCalls>>
    /\ UNCHANGED <<api_key, tz, city, exc, data, shown, raised, cityPrompts, prevFail>>

(* the rest of the iteration once fetch_weather has printed and returned r *)
AfterFetch(r) ==
    IF r.ret.t = "None"
    THEN /\ out' = r.printed \o <<Line("NoData", "[x] No data returned. Try again.\n", <<>>)>>
         /\ shown' = FALSE
         /\ raised' = "none"
    ELSE IF r.ret.t # "obj"
    THEN /\ out' = r.printed
         /\ shown' = FALSE
         /\ raised' = "AttributeError"
    ELSE IF ~IsSuccessCod(r.ret)
    THEN /\ out' = r.printed \o
                   <<Line("ApiError",
                          "[x] Error: " \o PyStr(GetOr(r.ret.message, JStr("Unknown error")))
                              \o ".\n",
                          <<PyStr(GetOr(r.ret.message, JStr("Unknown error")))>>)>>
         /\ shown' = FALSE
         /\ raised' = "none"
    ELSE /\ out' = r.printed \o show_weather(r.ret, units).lines
         /\ shown' = TRUE
         /\ raised' = show_weather(r.ret, units).raised

(* an uncaught exception ends main; otherwise the loop prompts again *)
Resume ==
    IF raised' # "none"
    THEN pc' = "Crashed" /\ UNCHANGED cityPrompts
    ELSE pc' = "AwaitingCity" /\ cityPrompts' = cityPrompts + 1

(* the request raises e *)
FetchFails(e) ==
    /\ pc = "Fetching"
    /\ exc' = e
    /\ data' = fetch_weather(e, NoneBody).ret
    /\ AfterFetch(fetch_weather(e, NoneBody))
    /\ Resume
    /\ UNCHANGED <<api_key, tz, line, city, units, netCalls, invalid, prevFail>>

(* the request succeeds and the body parses to b *)
FetchReturns(b) ==
    /\ pc = "Fetching"
    /\ exc' = "none"
    /\ data' = fetch_weather("none", b).ret
    /\ AfterFetch(fetch_weather("none", b))
    /\ Resume
    /\ UNCHANGED <<api_key, tz, line, city, units, netCalls, invalid, prevFail>>

Next ==
    \/ Startup
    \/ \E l \in CityLines : ReadCity(l)
    \/ \E l \in UnitLines : ReadUnits(l)
    \/ \E e \in Exceptions : FetchFails(e)
    \/ \E b \in Bodies : FetchReturns(b)

Spec == Init /\ [][Next]_vars

TypeOK ==
    /\ pc \in {"Start", "Returned", "AwaitingCity", "AwaitingUnits", "Fetching",
               "Exited", "Crashed"}
    /\ netCalls \in 0..MaxQueries
    /\ invalid \in 0..MaxInvalid

(***************************************************************************)
(* Properties                                                              *)
(***************************************************************************)

(* C1: after startup no outcome of a query ends the program: whatever the  *)
(* request raised or returned, main raises nothing and does not stop       *)
(* anywhere but at the exit command.                                       *)
C1_NoQueryOutcomeIsFatal == raised = "none" /\ pc # "Crashed"

(* C2: when the request fails with a connection error, the iteration       *)
(* prints exactly one network-error line (followed by the generic no-data  *)
(* line), prints no weather block, and the program is at the city prompt.  *)
C2_ConnectionFailure ==
    exc = "ConnectionError" =>
        /\ CountLines("NetworkError") = 1
        /\ out = <<Line("NetworkError",
                        "[x] Network connection error. Check your internet.", <<>>),
                   Line("NoData", "[x] No data returned. Try again.\n", <<>>)>>
        /\ ~shown
        /\ ~HasLine("Header")
        /\ raised = "none"
        /\ pc = "AwaitingCity"

C2_Witness == exc = "ConnectionError" /\ pc = "AwaitingCity" /\ netCalls >= 1

(* C3: for a parsed object, show_weather is called exactly when cod is the *)
(* integer 200 or the string "200"; otherwise the iteration prints the     *)
(* message member, or "Unknown error" without one, and is back at the city *)
(* prompt.                                                                 *)
C3_ShowIffCod200 ==
    data.t = "obj" =>
        /\ shown <=> data.cod \in {JInt(200), JStr("200")}
        /\ ~shown =>
             /\ out = <<Line("ApiError",
                    "[x] Error: " \o
                        (IF data.message = Absent THEN "Unknown error" ELSE data.message.s)
                        \o ".\n",
                    <<IF data.message = Absent THEN "Unknown error" ELSE data.message.s>>)>>
             /\ raised = "none"
             /\ pc = "AwaitingCity"

C3_Witness == data.t = "obj" /\ data.cod = JStr("200") /\ shown

(* the members that are present have the types the API gives them *)
PresentMembersTyped(d) ==
    /\ d.sys.t \in {"absent", "obj"}
    /\ d.main.t \in {"absent", "obj"}
    /\ d.wind.t \in {"absent", "obj"}
    /\ d.sys.sunrise.t \in {"absent", "int"}
    /\ d.sys.sunset.t \in {"absent", "int"}

(* C4: whichever optional members are missing, show_weather raises nothing *)
(* and prints the default of each missing one: "Unknown city", "N/A",      *)
(* "No data", and no line for a missing sunrise or sunset.                 *)
C4_MissingFieldsDefaults ==
    (shown /\ PresentMembersTyped(data)) =>
        /\ raised = "none"
        /\ pc = "AwaitingCity"
        /\ HasLine("Location") /\ HasLine("Temperature")
        /\ HasLine("Humidity") /\ HasLine("WindSpeed")
        /\ data.name = Absent => TheLine("Location").args[1] = "Unknown city"
        /\ data.sys.country = Absent => TheLine("Location").args[2] = "N/A"
        /\ data.main.temp = Absent => TheLine("Temperature").args[1] = "No data"
        /\ data.main.humidity = Absent => TheLine("Humidity").args[1] = "No data"
        /\ data.wind.speed = Absent => TheLine("WindSpeed").args[1] = "No data"
        /\ data.sys.sunrise = Absent => ~HasLine("Sunrise")
        /\ data.sys.sunset = Absent => ~HasLine("Sunset")

C4_Witness ==
    /\ shown /\ raised = "none"
    /\ data.name = Absent /\ data.sys = NoSys /\ data.main = NoMain /\ data.wind = NoWind
    /\ TheLine("Location").text = "Location: Unknown city, N/A"

(* C5: the Sunrise line is printed exactly when sys.sunrise is present and *)
(* the Sunset line exactly when sys.sunset is present, for every epoch     *)
(* value, 0 included, which is shown as 12:00 AM.                          *)
C5_SunLinesIffPresent ==
    (shown /\ PresentMembersTyped(data)) =>
        /\ HasLine("Sunrise") <=> data.sys.sunrise # Absent
        /\ HasLine("Sunset") <=> data.sys.sunset # Absent
        /\ data.sys.sunrise = JInt(0) => TheLine("Sunrise").args = <<"12:00 AM">>
        /\ data.sys.sunset = JInt(0) => TheLine("Sunset").args = <<"12:00 AM">>

(* the spellings of the exit command *)
ExitWords == {<<"e", "x", "i", "t">>, <<"E", "X", "I", "T">>, <<"E", "x", "i", "t">>}

(* C6: a line equal to "exit" in any letter case at the city prompt prints *)
(* the farewell and ends the loop; nothing follows it: no unit prompt and  *)
(* no request, however many queries came before.                           *)
C6_ExitTerminates ==
    [][/\ (pc = "AwaitingCity" /\ line' \in ExitWords) =>
            /\ pc' = "Exited"
            /\ out' = <<Line("Goodbye", "Goodbye!", <<>>)>>
            /\ netCalls' = netCalls
            /\ cityPrompts' = cityPrompts
       /\ pc = "Exited" => (pc' = "Exited" /\ netCalls' = netCalls)
       /\ pc' = "Exited" => pc \in {"AwaitingCity", "Exited"}]_vars

C6_Witness ==
    pc = "Exited" /\ line = <<"E", "X", "I", "T">> /\ netCalls >= 2 /\ HasLine("Goodbye")

(* the lines that choose a unit system *)
MetricLines == {<<"c">>, <<"C">>, <<" ", "c", " ">>}
ImperialLines == {<<"f">>, <<"\t", "F">>}

(* C7: at the unit prompt a line that is not c or f (trimmed, any case)    *)
(* prints an error and prompts again; c gives metric and f imperial; a     *)
(* request is issued only by a valid choice.                               *)
C7_UnitPrompt ==
    [][/\ pc = "AwaitingUnits" =>
            /\ line' \in MetricLines => (units' = "metric" /\ pc' = "Fetching")
            /\ line' \in ImperialLines => (units' = "imperial" /\ pc' = "Fetching")
            /\ line' \notin (MetricLines \cup ImperialLines) =>
                 /\ pc' = "AwaitingUnits"
                 /\ out' = <<Line("InvalidOption",
                                  "Invalid option. Please enter C or F.", <<>>)>>
                 /\ units' = units
                 /\ netCalls' = netCalls
       /\ (pc' = "Fetching" \/ netCalls' # netCalls) =>
            /\ pc = "AwaitingUnits"
            /\ line' \in (MetricLines \cup ImperialLines)
            /\ units' \in {"metric", "imperial"}]_vars

C7_Witness == pc = "AwaitingUnits" /\ invalid >= 2 /\ HasLine("InvalidOption")

(* the failure kind of an exception *)
KindOf(e) ==
    CASE e = "HTTPError" -> "HttpStatus"
      [] e = "ConnectionError" -> "ConnectionFailure"
      [] e \in {"ConnectTimeout", "ReadTimeout"} -> "Timeout"
      [] OTHER -> "Other"

(* C8: the caller of fetch_weather can tell the four failure kinds apart:  *)
(* two failures of different kinds never return the same value, and a      *)
(* request that timed out is reported as a timeout.                        *)
C8_FailureKindsDistinguishable ==
    /\ (exc # "none" /\ prevFail.exc # "none" /\ KindOf(exc) # KindOf(prevFail.exc))
            => data # prevFail.ret
    /\ (exc # "none" /\ KindOf(exc) = "Timeout")
            => (HasLine("Timeout") /\ ~HasLine("NetworkError"))

(* C9: without an API key (unset or empty) main prints the missing-key     *)
(* error and returns: no city prompt, no unit prompt, no request.          *)
C9_NoKeyNoInteraction ==
    api_key \in {KeyUnset, KeyEmpty} =>
        /\ pc \in {"Start", "Returned"}
        /\ netCalls = 0
        /\ cityPrompts = 0
        /\ raised = "none"
        /\ pc = "Returned" =>
             out = <<Line("NoKey",
                     "[x] ERROR: API key not found. Add it to your .env file.", <<>>)>>

C9_Witness == pc = "Returned" /\ api_key = KeyEmpty /\ HasLine("NoKey")

(* C10: every request is made with a non-empty city and with units metric  *)
(* or imperial.                                                            *)
C10_FetchPreconditions ==
    pc = "Fetching" => (city # <<>> /\ units \in {"metric", "imperial"})

====
